---- MODULE Spec2Model ----
(***************************************************************************)
(* Streaming chat pipeline of MFE-Vite/remote-app-vite:                    *)
(*   services/api.js      chatStreamApi  (reader, decoder, frame loop)     *)
(*   reducers/chatSlice.js chatStream thunk and the chat slice reducers    *)
(*                                                                         *)
(* Text is a sequence of one-character strings.  A byte is a string too:   *)
(* an ASCII byte is its character, a byte above 0x7F is named "xHH".       *)
(***************************************************************************)
EXTENDS Integers, Sequences, FiniteSets, TLC

(***************************************************************************)
(* Bounds of the model.                                                    *)
(***************************************************************************)
\* streams (dispatches of chatStream) in one behaviour
MaxStreams == 2
\* frames on the wire of a response in the chatStreamApi specification
MaxFrames == 2
\* frames on the wire of a response in the store specification
MaxPlan == 2
\* messages an addMessage may find in the transcript
MaxMessages == 1
\* dispatches of chatHistory in flight at once, in the session specification
MaxHistory == 1
\* dispatches of chatHistory in flight at once, in the history specification
MaxOverlap == 3

Streams == 1..MaxStreams

(***************************************************************************)
(* JavaScript values that cross the hooks and the store.                   *)
(***************************************************************************)
JNull == [t |-> "null", v |-> <<>>]

JUndefined == [t |-> "undefined", v |-> <<>>]

JStr(s) == [t |-> "string", v |-> s]

\* String(v) as the += of a string and v computes it
ToStr(j) ==
    IF j.t = "string" THEN j.v
    ELSE IF j.t = "undefined" THEN <<"u","n","d","e","f","i","n","e","d">>
    ELSE <<"n","u","l","l">>

(***************************************************************************)
(* String.prototype methods used by the code.                              *)
(***************************************************************************)
startsWith(s, p) == Len(s) >= Len(p) /\ SubSeq(s, 1, Len(p)) = p

\* first index at which p occurs in s, 0 when it does not
indexOf(s, p) ==
    LET hits == {i \in 1..(Len(s) - Len(p) + 1) : SubSeq(s, i, i + Len(p) - 1) = p}
    IN  IF hits = {} THEN 0 ELSE CHOOSE i \in hits : \A j \in hits : i <= j

\* s.replace(p, r) with a string pattern: the first occurrence only
replace(s, p, r) ==
    LET i == indexOf(s, p)
    IN  IF i = 0 THEN s
        ELSE SubSeq(s, 1, i - 1) \o r \o SubSeq(s, i + Len(p), Len(s))

RECURSIVE split(_, _)
\* s.split(sep), sep non-empty: leftmost non-overlapping occurrences
split(s, sep) ==
    LET i == indexOf(s, sep)
    IN  IF i = 0 THEN <<s>>
        ELSE <<SubSeq(s, 1, i - 1)>> \o split(SubSeq(s, i + Len(sep), Len(s)), sep)

WhiteSpace == {" ", "\n", "\t", "\r"}

RECURSIVE trimStart(_)
trimStart(s) ==
    IF s # <<>> /\ Head(s) \in WhiteSpace THEN trimStart(Tail(s)) ELSE s

RECURSIVE trimEnd(_)
trimEnd(s) ==
    IF s # <<>> /\ s[Len(s)] \in WhiteSpace THEN trimEnd(SubSeq(s, 1, Len(s) - 1)) ELSE s

trim(s) == trimEnd(trimStart(s))

(***************************************************************************)
(* TextDecoder("utf-8") used with {stream: true}: bytes of an unfinished   *)
(* character are kept in the decoder until the next call.                  *)
(***************************************************************************)
LeadBytes == {"xC3"}

ContinuationBytes == {"xA9"}

ReplacementChar == "U+FFFD"

\* the character of a complete two-byte sequence
CodePoint(bs) == IF bs = <<"xC3", "xA9">> THEN "U+00E9" ELSE ReplacementChar

\* one byte through the decoder: [held: bytes kept, out: characters produced]
DecodeByte(held, b) ==
    IF held = <<>>
    THEN IF b \in LeadBytes THEN [held |-> <<b>>, out |-> <<>>]
         ELSE IF b \in ContinuationBytes THEN [held |-> <<>>, out |-> <<ReplacementChar>>]
         ELSE [held |-> <<>>, out |-> <<b>>]
    ELSE IF b \in ContinuationBytes
         THEN [held |-> <<>>, out |-> <<CodePoint(held \o <<b>>)>>]
         ELSE IF b \in LeadBytes
              THEN [held |-> <<b>>, out |-> <<ReplacementChar>>]
              ELSE [held |-> <<>>, out |-> <<ReplacementChar, b>>]

\* the bytes the decoder keeps after byte b: with two-byte sequences only, they
\* depend on b alone
HeldAfter(b) == DecodeByte(<<>>, b).held

RECURSIVE decodeRange(_, _, _, _)
\* the characters produced by bytes i..j of value, the decoder holding `held` at byte 1
decodeRange(held, value, i, j) ==
    IF i > j THEN <<>>
    ELSE IF i = j
         THEN DecodeByte(IF i = 1 THEN held ELSE HeldAfter(value[i - 1]), value[i]).out
    ELSE LET m == (i + j) \div 2
         IN  decodeRange(held, value, i, m) \o decodeRange(held, value, m + 1, j)

\* mutant: decode without {stream: true}; an unfinished character is replaced at
\* the end of every call and nothing is kept
decodeNoStream(held, value) ==
    [held |-> <<>>,
     out  |-> decodeRange(<<>>, value, 1, Len(value))
              \o (IF value # <<>> /\ HeldAfter(value[Len(value)]) # <<>>
                  THEN <<ReplacementChar>> ELSE <<>>)]

\* decoder.decode(value, {stream: true}) from the decoder state `held`
decode(held, value) ==
    [held |-> IF value = <<>> THEN held ELSE HeldAfter(value[Len(value)]),
     out  |-> decodeRange(held, value, 1, Len(value))]

(***************************************************************************)
(* JSON.parse, for the fragment the wire uses: a string, or an object      *)
(* whose members are strings, with JSON white space around the tokens.     *)
(* Every other text is a SyntaxError (ok = FALSE); the responses drawn     *)
(* below hold no JSON text outside the fragment.                           *)
(***************************************************************************)
SyntaxError == [ok |-> FALSE, t |-> "error", v |-> <<>>, m |-> <<>>, next |-> 0]

RECURSIVE skipWs(_, _)
skipWs(t, i) == IF i <= Len(t) /\ t[i] \in WhiteSpace THEN skipWs(t, i + 1) ELSE i

RECURSIVE stringEnd(_, _)
\* index of the quote closing a string whose characters start at i; 0 if none
stringEnd(t, i) ==
    IF i > Len(t) THEN 0
    ELSE IF t[i] = "\"" THEN i
    ELSE IF t[i] \in {"\n", "\t", "\r", "\\"} THEN 0
    ELSE stringEnd(t, i + 1)

parseString(t, i) ==
    IF i <= Len(t) /\ t[i] = "\""
    THEN LET j == stringEnd(t, i + 1)
         IN  IF j = 0 THEN SyntaxError
             ELSE [ok |-> TRUE, t |-> "string", v |-> SubSeq(t, i + 1, j - 1),
                   m |-> <<>>, next |-> j + 1]
    ELSE SyntaxError

RECURSIVE parseMembers(_, _, _)
\* members of an object from the key at i; acc holds the members read so far
parseMembers(t, i, acc) ==
    LET key == parseString(t, i)
        c   == IF key.ok THEN skipWs(t, key.next) ELSE 0
        val == IF key.ok /\ c <= Len(t) /\ t[c] = ":"
               THEN parseString(t, skipWs(t, c + 1))
               ELSE SyntaxError
        e   == IF val.ok THEN skipWs(t, val.next) ELSE 0
        got == Append(acc, <<key.v, val.v>>)
    IN  IF ~val.ok \/ e > Len(t) THEN SyntaxError
        ELSE IF t[e] = "}"
             THEN [ok |-> TRUE, t |-> "object", v |-> <<>>, m |-> got, next |-> e + 1]
        ELSE IF t[e] = ","
             THEN parseMembers(t, skipWs(t, e + 1), got)
        ELSE SyntaxError

parseValue(t, i) ==
    IF i > Len(t) THEN SyntaxError
    ELSE IF t[i] = "\"" THEN parseString(t, i)
    ELSE IF t[i] = "{"
         THEN LET j == skipWs(t, i + 1)
              IN  IF j <= Len(t) /\ t[j] = "}"
                  THEN [ok |-> TRUE, t |-> "object", v |-> <<>>, m |-> <<>>, next |-> j + 1]
                  ELSE parseMembers(t, j, <<>>)
    ELSE SyntaxError

JSONparse(t) ==
    LET r == parseValue(t, skipWs(t, 1))
    IN  IF r.ok /\ skipWs(t, r.next) = Len(t) + 1 THEN r ELSE SyntaxError

\* json[key]: the last member named key of an object, undefined otherwise
Member(json, key) ==
    LET at == {i \in 1..Len(json.m) : json.m[i][1] = key}
    IN  IF json.t # "object" \/ at = {} THEN JUndefined
        ELSE JStr(json.m[CHOOSE i \in at : \A j \in at : j <= i][2])

(***************************************************************************)
(* chatSlice: initialState and the case reducers, as functions of state.   *)
(***************************************************************************)
initialState ==
    [messages |-> <<>>, loading |-> FALSE, error |-> JNull, sessionId |-> <<>>,
     currentBotMessage |-> <<>>,
     chatHistory |-> [chats |-> <<>>, loading |-> FALSE, error |-> JNull]]

BotMessage(text) == [type |-> "bot", llm_response |-> text]

\* mutant: the payload is put before the text accumulated
appendBotMessagePrepends(state, payload) ==
    [state EXCEPT !.currentBotMessage = ToStr(payload) \o @]

\* mutant: = instead of +=
appendBotMessageAssigns(state, payload) ==
    [state EXCEPT !.currentBotMessage = ToStr(payload)]

appendBotMessage(state, payload) ==
    [state EXCEPT !.currentBotMessage = @ \o ToStr(payload)]

\* mutant: the message is pushed without the test of the trimmed accumulator
finalizeBotMessageAlwaysPushes(state) ==
    [state EXCEPT !.messages = Append(@, BotMessage(state.currentBotMessage)),
                  !.currentBotMessage = <<>>,
                  !.loading = FALSE]

finalizeBotMessage(state) ==
    LET pushed == IF trim(state.currentBotMessage) # <<>>
                  THEN [state EXCEPT !.messages = Append(@, BotMessage(state.currentBotMessage)),
                                     !.currentBotMessage = <<>>]
                  ELSE state
    IN  [pushed EXCEPT !.loading = FALSE]

\* mutant: the text accumulated is pushed as a message before the error is set
setErrorFlushes(state, payload) ==
    [state EXCEPT !.messages = Append(@, BotMessage(state.currentBotMessage)),
                  !.currentBotMessage = <<>>, !.error = payload, !.loading = FALSE]

setError(state, payload) == [state EXCEPT !.error = payload, !.loading = FALSE]

setMessages(state, payload) == [state EXCEPT !.messages = payload]

\* mutant: unshift instead of push
addMessageUnshifts(state, payload) == [state EXCEPT !.messages = <<payload>> \o @]

addMessage(state, payload) == [state EXCEPT !.messages = Append(@, payload)]

\* mutant: the error is cleared too
setSessionClearsError(state, payload) ==
    [state EXCEPT !.sessionId = payload, !.error = JNull]

setSession(state, payload) == [state EXCEPT !.sessionId = payload]

\* mutant: the session is reset too
clearMessagesResetsSession(state) ==
    [state EXCEPT !.messages = <<>>, !.currentBotMessage = <<>>, !.error = JNull,
                  !.sessionId = <<>>]

\* mutant: the loading flag is reset too
clearMessagesStopsLoading(state) ==
    [state EXCEPT !.messages = <<>>, !.currentBotMessage = <<>>, !.error = JNull,
                  !.loading = FALSE]

\* mutant: the accumulator is kept
clearMessagesKeepsAccumulator(state) ==
    [state EXCEPT !.messages = <<>>, !.error = JNull]

clearMessages(state) ==
    [state EXCEPT !.messages = <<>>, !.currentBotMessage = <<>>, !.error = JNull]

\* mutant: the flag of the live stream is set instead of the flag of the history
chatHistoryPendingSetsLoading(state) ==
    [state EXCEPT !.loading = TRUE, !.chatHistory.error = JNull]

chatHistoryPending(state) ==
    [state EXCEPT !.chatHistory.loading = TRUE, !.chatHistory.error = JNull]

chatHistoryFulfilled(state, payload) ==
    [state EXCEPT !.chatHistory.loading = FALSE, !.chatHistory.chats = payload]

chatHistoryRejected(state, payload) ==
    [state EXCEPT !.chatHistory.loading = FALSE, !.chatHistory.error = payload]

\* mutant: the accumulator is kept
chatStreamPendingKeepsAccumulator(state) ==
    [state EXCEPT !.loading = TRUE, !.error = JNull]

chatStreamPending(state) ==
    [state EXCEPT !.loading = TRUE, !.currentBotMessage = <<>>, !.error = JNull]

FailedToFetchAnswer ==
    <<"F", "a", "i", "l", "e", "d", " ", "t", "o", " ", "f", "e", "t", "c", "h", " ",
      "a", "n", "s", "w", "e", "r">>

\* the left operand of || is kept when it is truthy
Truthy(j) == j.t = "string" /\ j.v # <<>>

\* mutant: no default after ||
chatStreamRejectedWithoutDefault(state, payload) ==
    [state EXCEPT !.loading = FALSE, !.error = payload]

chatStreamRejected(state, payload) ==
    [state EXCEPT !.loading = FALSE,
                  !.error = IF Truthy(payload) THEN payload ELSE JStr(FailedToFetchAnswer)]

\* the slice reducer: the case of the action's type; any other type is no case
reducer(state, action) ==
    CASE action.type = "chat/setMessages"           -> setMessages(state, action.payload)
      [] action.type = "chat/addMessage"            -> addMessage(state, action.payload)
      [] action.type = "chat/setSession"            -> setSession(state, action.payload)
      [] action.type = "chat/clearMessages"         -> clearMessages(state)
      [] action.type = "chat/appendBotMessage"      -> appendBotMessage(state, action.payload)
      [] action.type = "chat/finalizeBotMessage"    -> finalizeBotMessage(state)
      [] action.type = "chat/setError"              -> setError(state, action.payload)
      [] action.type = "chat/chatHistory/pending"   -> chatHistoryPending(state)
      [] action.type = "chat/chatHistory/fulfilled" -> chatHistoryFulfilled(state, action.payload)
      [] action.type = "chat/chatHistory/rejected"  -> chatHistoryRejected(state, action.payload)
      [] action.type = "chat/chatStream/pending"    -> chatStreamPending(state)
      [] action.type = "chat/chatStream/rejected"   -> chatStreamRejected(state, action.payload)
      [] OTHER                                      -> state

(***************************************************************************)
(* chatStreamApi: literals, the messages of its errors, one frame.         *)
(***************************************************************************)
DataPrefix == <<"d", "a", "t", "a", ":">>

DataSpace == <<"d", "a", "t", "a", ":", " ">>

Terminator == <<"\n", "\n">>

TypeKey == <<"t", "y", "p", "e">>

ContentKey == <<"c", "o", "n", "t", "e", "n", "t">>

TextType == <<"t", "e", "x", "t">>

EndType == <<"e", "n", "d">>

NoResponseBody == <<"N", "o", " ", "r", "e", "s", "p", "o", "n", "s", "e", " ", "b", "o", "d", "y">>

NotAuthenticated == <<"N", "o", "t", " ", "A", "u", "t", "h", "e", "n", "t", "i", "c", "a", "t", "e", "d">>

StreamingChatFailed == <<"S", "t", "r", "e", "a", "m", "i", "n", "g", " ", "c", "h", "a", "t", " ", "f", "a", "i", "l", "e", "d">>

\* err.message of a fetch() that rejects, and of a reader.read() that rejects
FailedToFetch == <<"F", "a", "i", "l", "e", "d", " ", "t", "o", " ", "f", "e", "t", "c", "h">>

NetworkError == <<"n", "e", "t", "w", "o", "r", "k", " ", "e", "r", "r", "o", "r">>

NoCall == [hook |-> "none", arg |-> JUndefined]

\* console.error("Parse error", err): no hook of the caller
ParseErrorLogged == [hook |-> "console.error", arg |-> JUndefined]

Hooks == {"onChunk", "onComplete", "onError"}

OnChunk(content) == [hook |-> "onChunk", arg |-> content]

OnComplete == [hook |-> "onComplete", arg |-> JUndefined]

OnError(message) == [hook |-> "onError", arg |-> JStr(message)]

\* mutant: the else-if branch of "end" is missing
framePartWithoutEnd(part) ==
    IF startsWith(part, DataPrefix)
    THEN LET json == JSONparse(replace(part, DataSpace, <<>>))
         IN  IF ~json.ok THEN ParseErrorLogged
             ELSE IF Member(json, TypeKey) = JStr(TextType)
                  THEN OnChunk(Member(json, ContentKey))
             ELSE NoCall
    ELSE NoCall

\* the body of the for loop for one part: the hook it calls, NoCall if none.
\* A SyntaxError is caught inside the loop and only logged.
framePart(part) ==
    IF startsWith(part, DataPrefix)
    THEN LET json == JSONparse(replace(part, DataSpace, <<>>))
         IN  IF ~json.ok THEN ParseErrorLogged
             ELSE IF Member(json, TypeKey) = JStr(TextType)
                  THEN OnChunk(Member(json, ContentKey))
             ELSE IF Member(json, TypeKey) = JStr(EndType)
                  THEN OnComplete
             ELSE NoCall
    ELSE NoCall

\* mutant: the test of res.ok is missing
validateWithoutOk(status, hasBody) ==
    IF ~hasBody THEN [throws |-> TRUE, message |-> NoResponseBody]
    ELSE IF status = 403 THEN [throws |-> TRUE, message |-> NotAuthenticated]
    ELSE [throws |-> FALSE, message |-> <<>>]

\* the response validation before the reader is taken: the error thrown, or none
validate(status, hasBody) ==
    IF ~hasBody THEN [throws |-> TRUE, message |-> NoResponseBody]
    ELSE IF status = 403 THEN [throws |-> TRUE, message |-> NotAuthenticated]
    ELSE IF ~(status >= 200 /\ status <= 299)
         THEN [throws |-> TRUE, message |-> StreamingChatFailed]
    ELSE [throws |-> FALSE, message |-> <<>>]

Status403 == <<"4", "0", "3">>

\* `GET ${endpoint} failed`, the endpoint left out
GetFailed == <<"G", "E", "T", " ", "f", "a", "i", "l", "e", "d">>

\* GET: the error thrown for a response of this status, or none
validateGet(status) ==
    IF status = 403 THEN [throws |-> TRUE, message |-> Status403]
    ELSE IF ~(status >= 200 /\ status <= 299) THEN [throws |-> TRUE, message |-> GetFailed]
    ELSE [throws |-> FALSE, message |-> <<>>]

\* mutant: buffer = decoded instead of buffer += decoded
splitBufferAssigns(buffer, decoded) ==
    LET parts == split(decoded, Terminator)
    IN  [parts |-> SubSeq(parts, 1, Len(parts) - 1), buffer |-> parts[Len(parts)]]

\* buffer += decoded; parts = buffer.split("\n\n"); buffer = parts.pop() || ""
splitBuffer(buffer, decoded) ==
    LET parts == split(buffer \o decoded, Terminator)
    IN  [parts |-> SubSeq(parts, 1, Len(parts) - 1), buffer |-> parts[Len(parts)]]

\* the hooks the chatStream thunk passes to chatStreamApi: the action dispatched
hookAction(call) ==
    CASE call.hook = "onChunk"    -> [type |-> "chat/appendBotMessage", payload |-> call.arg]
      [] call.hook = "onComplete" -> [type |-> "chat/finalizeBotMessage", payload |-> JUndefined]
      [] call.hook = "onError"    -> [type |-> "chat/setError", payload |-> call.arg]

(***************************************************************************)
(* Responses the server may send.  A frame is described by its kind, by    *)
(* whether a space follows "data:" (sp), by its content (c) and by whether *)
(* the terminator follows it (term); FrameText is its text on the wire.    *)
(***************************************************************************)
Quoted(s) == <<"\"">> \o s \o <<"\"">>

Pair(k, v) == Quoted(k) \o <<":">> \o Quoted(v)

Frame(kind, sp, c) == [kind |-> kind, sp |-> sp, c |-> c, term |-> TRUE]

PayloadText(d) ==
    CASE d.kind = "text"      -> <<"{">> \o Pair(TypeKey, TextType) \o <<",">>
                                  \o Pair(ContentKey, d.c) \o <<"}">>
      [] d.kind = "end"       -> <<"{">> \o Pair(TypeKey, EndType) \o <<"}">>
      [] d.kind = "ping"      -> <<"{">> \o Pair(TypeKey, <<"p", "i", "n", "g">>) \o <<"}">>
      [] d.kind = "notype"    -> <<"{">> \o Pair(ContentKey, d.c) \o <<"}">>
      [] d.kind = "nocontent" -> <<"{">> \o Pair(TypeKey, TextType) \o <<"}">>
      [] d.kind = "bad"       -> <<"{">> \o Pair(TypeKey, TextType)

FrameText(d) ==
    IF d.kind = "comment" THEN <<":", " ", "h", "b">>
    ELSE (IF d.sp THEN DataSpace ELSE DataPrefix) \o PayloadText(d)

RECURSIVE WireText(_)
WireText(plan) ==
    IF plan = <<>> THEN <<>>
    ELSE FrameText(Head(plan)) \o (IF Head(plan).term THEN Terminator ELSE <<>>)
         \o WireText(Tail(plan))

RECURSIVE Utf8Range(_, _, _)
Utf8Range(text, i, j) ==
    IF i > j THEN <<>>
    ELSE IF i = j
         THEN (IF text[i] = "U+00E9" THEN <<"xC3", "xA9">> ELSE <<text[i]>>)
    ELSE LET m == (i + j) \div 2
         IN  Utf8Range(text, i, m) \o Utf8Range(text, m + 1, j)

\* the bytes of a text
Utf8(text) == Utf8Range(text, 1, Len(text))

Wire(plan) == Utf8(WireText(plan))

\* every sequence of at most n frames of F
Whole(F, n) == UNION {[1..k -> F] : k \in 0..n}

\* the same, and those whose last frame lacks its terminator
PlansOver(F, n) ==
    Whole(F, n) \cup {[p EXCEPT ![Len(p)].term = FALSE] : p \in Whole(F, n) \ {<<>>}}

ApiFrames ==
    {Frame("text", TRUE, <<"a">>), Frame("text", TRUE, <<"U+00E9">>),
     Frame("text", FALSE, <<"a">>), Frame("end", TRUE, <<>>),
     Frame("ping", TRUE, <<>>), Frame("notype", TRUE, <<"a">>),
     Frame("bad", TRUE, <<>>), Frame("comment", TRUE, <<>>)}

StoreFrames ==
    {Frame("text", TRUE, <<"a">>), Frame("text", TRUE, <<" ">>), Frame("end", TRUE, <<>>)}

\* a malformed frame between two well-formed ones
SandwichPlan ==
    <<Frame("text", TRUE, <<"a">>), Frame("bad", TRUE, <<>>), Frame("end", TRUE, <<>>)>>

\* the deltas "He", "llo", then the end
HelloPlan ==
    <<Frame("text", TRUE, <<"H", "e">>), Frame("text", TRUE, <<"l", "l", "o">>),
      Frame("end", TRUE, <<>>)>>

\* a text frame without content, then the end
NoContentPlan == <<Frame("nocontent", TRUE, <<>>), Frame("end", TRUE, <<>>)>>

ApiPlans == PlansOver(ApiFrames, MaxFrames) \cup {SandwichPlan, NoContentPlan}

StorePlans == Whole(StoreFrames, MaxPlan) \cup {HelloPlan}

Statuses == {200, 300, 403, 404, 500}

\* what the components of the application dispatch
UserMessage == [text |-> <<"h", "i">>, sender |-> "user"]

Greeting == [text |-> <<"H", "e", "l", "l", "o", "!">>, sender |-> "bot"]

Transcripts == {<<Greeting>>}

SessionIds == {<<"s", "1">>}

\* the bodies of the history responses
Chats == {<<UserMessage>>}

HistoryStatuses == {200, 403, 500}

\* the responses of at most one frame, a delta then the end, a blank delta then
\* the end, and two deltas then the end
SessionPlans ==
    Whole(StoreFrames, 1)
        \cup {<<Frame("text", TRUE, <<"a">>), Frame("end", TRUE, <<>>)>>,
              <<Frame("text", TRUE, <<" ">>), Frame("end", TRUE, <<>>)>>,
              HelloPlan}

(***************************************************************************)
(* State.                                                                  *)
(*   chat     the chat slice of the store                                  *)
(*   thunk    per dispatch of chatStream: the promise createAsyncThunk     *)
(*            returned ("idle" before the dispatch, then "pending", then   *)
(*            "fulfilled" or "rejected")                                   *)
(*   history  the dispatches of chatHistory whose request is in flight     *)
(*   streams  per dispatch of chatStream: where chatStreamApi stands (pc), *)
(*            the bytes the reader has not delivered yet (rest), the       *)
(*            decoder's kept bytes (held), buffer, and the parts of the    *)
(*            for loop not yet visited (todo)                              *)
(* History, read by the properties only:                                   *)
(*   obs      per stream: the response (status, hasBody, plan), the hook   *)
(*            calls made (calls), the parts handed to the for loop         *)
(*            (frames), the kinds of chunk cuts met (cuts), and where the  *)
(*            transport failed (fail)                                      *)
(*   lastAct  the last action dispatched to the store, prev the chat       *)
(*            state before it                                              *)
(*   since    the run since the last chatStream.pending: messages at the   *)
(*            start (base), the payloads appended (deltas), and phase:     *)
(*            "open" while only appendBotMessage followed the start,       *)
(*            "completed" right after the finalizeBotMessage that closes   *)
(*            such a run, "none" otherwise                                 *)
(*   applied  the payloads of the appendBotMessage actions since the last  *)
(*            chatStream.pending, clearMessages, or finalizeBotMessage     *)
(*            that pushed a message                                        *)
(*   cleared  the run since the last clearMessages dispatched while a      *)
(*            stream was loading: phase "on" until the stream's            *)
(*            finalizeBotMessage ("completed" right after it), setError,   *)
(*            rejection or the next start ("off"), and the payloads        *)
(*            appended meanwhile (deltas)                                  *)
(***************************************************************************)
VARIABLES chat, streams, thunk, history, obs, lastAct, prev, since, applied, cleared

vars == <<chat, streams, thunk, history, obs, lastAct, prev, since, applied, cleared>>

\* what a dispatch to the store changes
dispatched == <<chat, lastAct, prev, since, applied, cleared>>

\* the promises of the thunks
promises == <<thunk, history>>

IdleStream == [pc |-> "idle", rest |-> <<>>, held |-> <<>>, buffer |-> <<>>, todo |-> <<>>]

NoObs ==
    [status |-> 0, hasBody |-> FALSE, plan |-> <<>>, calls |-> <<>>, frames |-> <<>>,
     cuts |-> {}, fail |-> "no"]

Init ==
    /\ chat = initialState
    /\ streams = [s \in Streams |-> IdleStream]
    /\ thunk = [s \in Streams |-> "idle"]
    /\ history = 0
    /\ obs = [s \in Streams |-> NoObs]
    /\ lastAct = [type |-> "@@INIT", payload |-> JUndefined]
    /\ prev = initialState
    /\ since = [phase |-> "none", base |-> <<>>, deltas |-> <<>>]
    /\ applied = <<>>
    /\ cleared = [phase |-> "off", deltas |-> <<>>]

\* JavaScript runs a for loop to its end: nothing else runs while one has parts left
NoneBusy == \A s \in Streams : streams[s].todo = <<>>

SinceAfter(action) ==
    IF action.type = "chat/chatStream/pending"
    THEN [phase |-> "open", base |-> chat.messages, deltas |-> <<>>]
    ELSE IF since.phase = "open" /\ action.type = "chat/appendBotMessage"
    THEN [since EXCEPT !.deltas = Append(@, action.payload)]
    ELSE IF since.phase = "open" /\ action.type = "chat/finalizeBotMessage"
    THEN [since EXCEPT !.phase = "completed"]
    ELSE [phase |-> "none", base |-> <<>>, deltas |-> <<>>]

AppliedAfter(action) ==
    IF action.type \in {"chat/chatStream/pending", "chat/clearMessages"} THEN <<>>
    ELSE IF /\ action.type = "chat/finalizeBotMessage"
            /\ Len(reducer(chat, action).messages) > Len(chat.messages)
    THEN <<>>
    ELSE IF action.type = "chat/appendBotMessage" THEN Append(applied, action.payload)
    ELSE applied

ClearedAfter(action) ==
    IF action.type = "chat/clearMessages"
    THEN [phase |-> IF chat.loading /\ \E s \in Streams : streams[s].pc \in {"fetch", "read"}
                    THEN "on" ELSE "off",
          deltas |-> <<>>]
    ELSE IF cleared.phase = "on" /\ action.type = "chat/appendBotMessage"
    THEN [cleared EXCEPT !.deltas = Append(@, action.payload)]
    ELSE IF cleared.phase = "on" /\ action.type = "chat/finalizeBotMessage"
    THEN [cleared EXCEPT !.phase = "completed"]
    ELSE IF \/ cleared.phase = "completed"
            \/ action.type \in {"chat/chatStream/pending", "chat/chatStream/rejected",
                                 "chat/setError"}
    THEN [phase |-> "off", deltas |-> <<>>]
    ELSE cleared

\* store.dispatch(action)
Dispatch(action) ==
    /\ chat' = reducer(chat, action)
    /\ lastAct' = action
    /\ prev' = chat
    /\ since' = SinceAfter(action)
    /\ applied' = AppliedAfter(action)
    /\ cleared' = ClearedAfter(action)

\* a hook of the thunk is called by stream s
CallHook(s, call) ==
    /\ Dispatch(hookAction(call))
    /\ obs' = [obs EXCEPT ![s].calls = Append(@, call)]

(***************************************************************************)
(* dispatch(chatStream(payload)): pending is dispatched, chatStreamApi     *)
(* starts and waits for fetch.                                             *)
(***************************************************************************)
StartStream(s) ==
    /\ NoneBusy
    /\ streams[s].pc = "idle"
    /\ \A r \in Streams : r < s => streams[r].pc # "idle"
    /\ Dispatch([type |-> "chat/chatStream/pending", payload |-> JUndefined])
    /\ streams' = [streams EXCEPT ![s].pc = "fetch"]
    /\ thunk' = [thunk EXCEPT ![s] = "pending"]
    /\ UNCHANGED <<history, obs>>

\* fetch rejects: the catch calls onError(err.message)
FetchRejects(s) ==
    /\ NoneBusy
    /\ streams[s].pc = "fetch"
    /\ Dispatch(hookAction(OnError(FailedToFetch)))
    /\ obs' = [obs EXCEPT ![s].calls = Append(@, OnError(FailedToFetch)), ![s].fail = "fetch"]
    /\ streams' = [streams EXCEPT ![s].pc = "returned"]
    /\ UNCHANGED promises

\* fetch resolves with a response: it is validated, then the reader is taken
FetchResolves(s, plans) ==
    /\ NoneBusy
    /\ streams[s].pc = "fetch"
    /\ UNCHANGED promises
    /\ \E status \in Statuses, hasBody \in BOOLEAN :
         LET v == validate(status, hasBody)
         IN  IF v.throws
             THEN /\ Dispatch(hookAction(OnError(v.message)))
                  /\ obs' = [obs EXCEPT ![s].calls = Append(@, OnError(v.message)),
                                        ![s].fail = "validate",
                                        ![s].status = status, ![s].hasBody = hasBody]
                  /\ streams' = [streams EXCEPT ![s].pc = "returned"]
             ELSE \E plan \in plans :
                  /\ obs' = [obs EXCEPT ![s].status = status, ![s].hasBody = hasBody,
                                        ![s].plan = plan]
                  /\ streams' = [streams EXCEPT ![s] =
                         [pc |-> "read", rest |-> Wire(plan), held |-> <<>>,
                          buffer |-> <<>>, todo |-> <<>>]]
                  /\ UNCHANGED dispatched

\* the kinds of cut a chunk of k bytes makes in the bytes left
CutKinds(rest, k) ==
    IF k >= Len(rest) THEN {}
    ELSE (IF rest[k] = "\n" /\ rest[k + 1] = "\n" THEN {"terminator"} ELSE {})
         \cup (IF rest[k] \in LeadBytes THEN {"character"} ELSE {})

\* mutant: the next read is issued while the frame loop has parts left
ReadChunkBeforeLoopEnds(s, k) ==
    /\ streams[s].pc = "read"
    /\ k \in 1..Len(streams[s].rest)
    /\ LET st == streams[s]
           d  == decode(st.held, SubSeq(st.rest, 1, k))
           sp == splitBuffer(st.buffer, d.out)
       IN  /\ streams' = [streams EXCEPT ![s] =
                  [pc |-> "read", rest |-> SubSeq(st.rest, k + 1, Len(st.rest)),
                   held |-> d.held, buffer |-> sp.buffer, todo |-> sp.parts]]
           /\ obs' = [obs EXCEPT ![s].frames = @ \o sp.parts,
                                 ![s].cuts = @ \cup CutKinds(st.rest, k)]
    /\ UNCHANGED <<dispatched, promises>>

\* reader.read() resolves with a chunk of k bytes: decode, split, keep the tail
ReadChunk(s, k) ==
    /\ NoneBusy
    /\ streams[s].pc = "read"
    /\ k \in 1..Len(streams[s].rest)
    /\ LET st == streams[s]
           d  == decode(st.held, SubSeq(st.rest, 1, k))
           sp == splitBuffer(st.buffer, d.out)
       IN  /\ streams' = [streams EXCEPT ![s] =
                  [pc |-> "read", rest |-> SubSeq(st.rest, k + 1, Len(st.rest)),
                   held |-> d.held, buffer |-> sp.buffer, todo |-> sp.parts]]
           /\ obs' = [obs EXCEPT ![s].frames = @ \o sp.parts,
                                 ![s].cuts = @ \cup CutKinds(st.rest, k)]
    /\ UNCHANGED <<dispatched, promises>>

\* mutant: no try/catch inside the loop; a SyntaxError reaches the outer catch
ProcessPartWithoutCatch(s) ==
    /\ streams[s].todo # <<>>
    /\ UNCHANGED promises
    /\ LET call == framePart(Head(streams[s].todo))
       IN  IF call.hook \in Hooks
           THEN /\ CallHook(s, call)
                /\ streams' = [streams EXCEPT ![s].todo = Tail(@)]
           ELSE IF call.hook = "console.error"
           THEN /\ CallHook(s, OnError(<<"U", "n", "e", "x", "p", "e", "c", "t", "e", "d">>))
                /\ streams' = [streams EXCEPT ![s].todo = <<>>, ![s].pc = "returned"]
           ELSE /\ UNCHANGED <<dispatched, obs>>
                /\ streams' = [streams EXCEPT ![s].todo = Tail(@)]

\* one iteration of for (const part of parts)
ProcessPart(s) ==
    /\ streams[s].todo # <<>>
    /\ UNCHANGED promises
    /\ LET call == framePart(Head(streams[s].todo))
       IN  IF call.hook \in Hooks
           THEN CallHook(s, call)
           ELSE UNCHANGED <<dispatched, obs>>
    /\ streams' = [streams EXCEPT ![s].todo = Tail(@)]

\* mutant: at done the text left in the buffer is handed to the frame loop
ReadDoneFlushesBuffer(s) ==
    /\ NoneBusy
    /\ streams[s].pc = "read"
    /\ streams[s].rest = <<>>
    /\ streams' = [streams EXCEPT ![s].pc = "returned", ![s].todo = <<streams[s].buffer>>]
    /\ UNCHANGED <<dispatched, promises, obs>>

\* reader.read() resolves with done: the loop breaks and chatStreamApi returns
ReadDone(s) ==
    /\ NoneBusy
    /\ streams[s].pc = "read"
    /\ streams[s].rest = <<>>
    /\ streams' = [streams EXCEPT ![s].pc = "returned"]
    /\ UNCHANGED <<dispatched, promises, obs>>

\* mutant: the catch is inside the while loop; the loop goes on after onError
ReadFailsAndGoesOn(s) ==
    /\ NoneBusy
    /\ streams[s].pc = "read"
    /\ Dispatch(hookAction(OnError(NetworkError)))
    /\ obs' = [obs EXCEPT ![s].calls = Append(@, OnError(NetworkError)), ![s].fail = "read"]
    /\ UNCHANGED <<streams, promises>>

\* reader.read() rejects: the catch calls onError(err.message)
ReadFails(s) ==
    /\ NoneBusy
    /\ streams[s].pc = "read"
    /\ Dispatch(hookAction(OnError(NetworkError)))
    /\ obs' = [obs EXCEPT ![s].calls = Append(@, OnError(NetworkError)), ![s].fail = "read"]
    /\ streams' = [streams EXCEPT ![s].pc = "returned"]
    /\ UNCHANGED promises

\* mutant: a failure is thrown again by chatStreamApi after onError, and the catch of
\* the thunk returns rejectWithValue(err.message)
SettleRejectsFailure(s) ==
    /\ NoneBusy
    /\ streams[s].pc = "returned"
    /\ IF thunk[s] = "pending" /\ obs[s].fail # "no"
       THEN /\ Dispatch([type |-> "chat/chatStream/rejected",
                         payload |-> obs[s].calls[Len(obs[s].calls)].arg])
            /\ thunk' = [thunk EXCEPT ![s] = "rejected"]
       ELSE IF thunk[s] = "pending"
       THEN /\ Dispatch([type |-> "chat/chatStream/fulfilled", payload |-> JUndefined])
            /\ thunk' = [thunk EXCEPT ![s] = "fulfilled"]
       ELSE UNCHANGED <<dispatched, thunk>>
    /\ streams' = [streams EXCEPT ![s].pc = "settled"]
    /\ UNCHANGED <<history, obs>>

\* chatStreamApi has returned: the thunk dispatches fulfilled, which has no case,
\* unless its promise was rejected before
Settle(s) ==
    /\ NoneBusy
    /\ streams[s].pc = "returned"
    /\ IF thunk[s] = "pending"
       THEN /\ Dispatch([type |-> "chat/chatStream/fulfilled", payload |-> JUndefined])
            /\ thunk' = [thunk EXCEPT ![s] = "fulfilled"]
       ELSE UNCHANGED <<dispatched, thunk>>
    /\ streams' = [streams EXCEPT ![s].pc = "settled"]
    /\ UNCHANGED <<history, obs>>

\* promise.abort() of a dispatched chatStream whose promise is pending: the thunk
\* dispatches rejected without a payload; chatStreamApi is not told and goes on
Abort(s) ==
    /\ NoneBusy
    /\ thunk[s] = "pending"
    /\ streams[s].pc \in {"fetch", "read"}
    /\ Dispatch([type |-> "chat/chatStream/rejected", payload |-> JUndefined])
    /\ thunk' = [thunk EXCEPT ![s] = "rejected"]
    /\ UNCHANGED <<streams, history, obs>>

\* dispatch(setMessages(payload))
SetMessages ==
    /\ NoneBusy
    /\ \E payload \in Transcripts : Dispatch([type |-> "chat/setMessages", payload |-> payload])
    /\ UNCHANGED <<streams, promises, obs>>

\* dispatch(addMessage(payload))
AddMessage ==
    /\ NoneBusy
    /\ Len(chat.messages) <= MaxMessages
    /\ Dispatch([type |-> "chat/addMessage", payload |-> UserMessage])
    /\ UNCHANGED <<streams, promises, obs>>

\* dispatch(setSession(payload))
SetSession ==
    /\ NoneBusy
    /\ \E id \in SessionIds : Dispatch([type |-> "chat/setSession", payload |-> id])
    /\ UNCHANGED <<streams, promises, obs>>

\* dispatch(clearMessages())
ClearMessages ==
    /\ NoneBusy
    /\ Dispatch([type |-> "chat/clearMessages", payload |-> JUndefined])
    /\ UNCHANGED <<streams, promises, obs>>

\* dispatch(chatHistory(params)): pending is dispatched, GET waits for fetch
StartHistory(max) ==
    /\ NoneBusy
    /\ history < max
    /\ Dispatch([type |-> "chat/chatHistory/pending", payload |-> JUndefined])
    /\ history' = history + 1
    /\ UNCHANGED <<streams, thunk, obs>>

\* the fetch of a chatHistory rejects: rejectWithValue(err.message)
HistoryFetchRejects ==
    /\ NoneBusy
    /\ history > 0
    /\ Dispatch([type |-> "chat/chatHistory/rejected", payload |-> JStr(FailedToFetch)])
    /\ history' = history - 1
    /\ UNCHANGED <<streams, thunk, obs>>

\* the fetch of a chatHistory resolves: GET throws or returns response.json()
HistoryFetchResolves ==
    /\ NoneBusy
    /\ history > 0
    /\ \E status \in HistoryStatuses, chats \in Chats :
         LET v == validateGet(status)
         IN  IF v.throws
             THEN Dispatch([type |-> "chat/chatHistory/rejected", payload |-> JStr(v.message)])
             ELSE Dispatch([type |-> "chat/chatHistory/fulfilled", payload |-> chats])
    /\ history' = history - 1
    /\ UNCHANGED <<streams, thunk, obs>>

\* a chunk that ends with the next terminator, or all the bytes left
FrameCuts(rest) ==
    LET i == indexOf(rest, Terminator)
    IN  {Len(rest)} \cup (IF i = 0 THEN {} ELSE {i + 1})

\* a chunk of any size
ReadAny(s) == \E k \in 1..Len(streams[s].rest) : ReadChunk(s, k)

\* a chunk of whole frames
ReadFrames(s) == \E k \in FrameCuts(streams[s].rest) : ReadChunk(s, k)

(***************************************************************************)
(* SpecApi: one call of chatStreamApi, any response of ApiPlans, chunks    *)
(* cut anywhere.                                                           *)
(***************************************************************************)
NextApi ==
    \/ StartStream(1)
    \/ FetchRejects(1)
    \/ FetchResolves(1, ApiPlans)
    \/ ReadAny(1)
    \/ ProcessPart(1)
    \/ ReadDone(1)
    \/ ReadFails(1)

SpecApi == Init /\ [][NextApi]_vars

(***************************************************************************)
(* Spec: the store with up to MaxStreams dispatches of chatStream, the     *)
(* responses of StorePlans, chunks cut at frame ends.                      *)
(***************************************************************************)
Next ==
    \E s \in Streams :
        \/ StartStream(s)
        \/ FetchRejects(s)
        \/ FetchResolves(s, StorePlans)
        \/ ReadFrames(s)
        \/ ProcessPart(s)
        \/ ReadDone(s)
        \/ ReadFails(s)
        \/ Settle(s)

Spec == Init /\ [][Next]_vars

(***************************************************************************)
(* SpecSession: the store as the application drives it: one dispatch of    *)
(* chatStream with a response of SessionPlans, its abort, the explicit     *)
(* actions and the dispatches of chatHistory.                              *)
(***************************************************************************)
NextSession ==
    \/ StartStream(1)
    \/ FetchRejects(1)
    \/ FetchResolves(1, SessionPlans)
    \/ ReadFrames(1)
    \/ ProcessPart(1)
    \/ ReadDone(1)
    \/ ReadFails(1)
    \/ Settle(1)
    \/ Abort(1)
    \/ SetMessages
    \/ AddMessage
    \/ SetSession
    \/ ClearMessages
    \/ StartHistory(MaxHistory)
    \/ HistoryFetchRejects
    \/ HistoryFetchResolves

SpecSession == Init /\ [][NextSession]_vars

(***************************************************************************)
(* SpecHistory: the dispatches of chatHistory, up to MaxOverlap requests   *)
(* in flight at once, and the session id they are made for.                *)
(***************************************************************************)
NextHistory ==
    \/ StartHistory(MaxOverlap)
    \/ HistoryFetchRejects
    \/ HistoryFetchResolves
    \/ SetSession

SpecHistory == Init /\ [][NextHistory]_vars

(***************************************************************************)
(* SpecLive: one dispatch of chatStream whose thunk runs on once           *)
(* chatStreamApi has returned (the frame loop has no part left then).      *)
(* Nothing is assumed of the transport.                                    *)
(***************************************************************************)
NextLive ==
    \/ StartStream(1)
    \/ FetchRejects(1)
    \/ FetchResolves(1, StorePlans)
    \/ ReadFrames(1)
    \/ ProcessPart(1)
    \/ ReadDone(1)
    \/ ReadFails(1)
    \/ Settle(1)

SpecLive == Init /\ [][NextLive]_vars /\ WF_vars(Settle(1))

(***************************************************************************)
(* SpecSeq: a session of one stream at a time: chatStream is dispatched    *)
(* again only when the promise of the dispatch before has settled.         *)
(***************************************************************************)
StartNext(s) ==
    /\ \A r \in Streams : r < s => thunk[r] \in {"fulfilled", "rejected"}
    /\ StartStream(s)

NextSeq ==
    \E s \in Streams :
        \/ StartNext(s)
        \/ FetchRejects(s)
        \/ FetchResolves(s, StorePlans)
        \/ ReadFrames(s)
        \/ ProcessPart(s)
        \/ ReadDone(s)
        \/ ReadFails(s)
        \/ Settle(s)

SpecSeq == Init /\ [][NextSeq]_vars

(***************************************************************************)
(* Reference runs, used by the properties: the whole body of a response    *)
(* delivered as one chunk.                                                 *)
(***************************************************************************)
Returned(s) == streams[s].pc \in {"returned", "settled"}

\* chatStreamApi of stream s returned after the reader reported done
Completed(s) == Returned(s) /\ obs[s].fail = "no"

ReferenceFrames(plan) == splitBuffer(<<>>, decode(<<>>, Wire(plan)).out).parts

RECURSIVE CallsOfParts(_)
CallsOfParts(parts) ==
    IF parts = <<>> THEN <<>>
    ELSE (IF framePart(Head(parts)).hook \in Hooks THEN <<framePart(Head(parts))>> ELSE <<>>)
         \o CallsOfParts(Tail(parts))

ReferenceCalls(plan) == CallsOfParts(ReferenceFrames(plan))

ErrorCalls(c) == {i \in 1..Len(c) : c[i].hook = "onError"}

(***************************************************************************)
(* C1.  Chunk-boundary invariance: however the bytes of a response body    *)
(* are cut into chunks, once the reader reports done the parts handed to   *)
(* the frame loop are those of the whole body delivered as one chunk.      *)
(***************************************************************************)
C1_ChunkBoundaryInvariance ==
    \A s \in Streams :
        Completed(s) => obs[s].frames = ReferenceFrames(obs[s].plan)

\* a two-frame body that was cut inside a terminator and inside a two-byte character
C1_Witness ==
    \E s \in Streams :
        /\ Completed(s)
        /\ obs[s].cuts = {"terminator", "character"}
        /\ Len(obs[s].frames) = 2
        /\ obs[s].frames = ReferenceFrames(obs[s].plan)

(***************************************************************************)
(* C5.  Every response of status 403, with a body or without one, makes    *)
(* chatStreamApi call onError once with "Not Authenticated" and no other   *)
(* hook.  (The code tests for the missing body first.)                     *)
(***************************************************************************)
C5_Status403IsAuthError ==
    \A s \in Streams :
        obs[s].status = 403 => obs[s].calls = <<OnError(NotAuthenticated)>>

(***************************************************************************)
(* C6.  A response with no body, or with a status outside 2xx other than   *)
(* 403, is refused before any read: onError is called once with a generic  *)
(* transport message, no other hook is called, chatStreamApi has returned  *)
(* and nothing was read or fetched again.                                  *)
(***************************************************************************)
Refused(s) ==
    /\ obs[s].status # 0
    /\ \/ ~obs[s].hasBody
       \/ /\ ~(obs[s].status >= 200 /\ obs[s].status <= 299)
          /\ obs[s].status # 403

\* C6: a refused response makes one generic onError call and no read
C6_TransportErrorBeforeRead ==
    \A s \in Streams :
        Refused(s) =>
            /\ obs[s].calls \in {<<OnError(NoResponseBody)>>, <<OnError(StreamingChatFailed)>>}
            /\ Returned(s)
            /\ obs[s].frames = <<>>
            /\ streams[s].rest = <<>> /\ streams[s].buffer = <<>>

C6_Witness ==
    \E s \in Streams :
        /\ obs[s].status = 500 /\ obs[s].hasBody
        /\ obs[s].calls = <<OnError(StreamingChatFailed)>>
        /\ Returned(s)

(***************************************************************************)
(* C7.  Wherever the transport fails (fetch, validation, any read), the    *)
(* stream's onError is called exactly once and it is the stream's last     *)
(* hook call; a stream whose transport did not fail never calls onError.   *)
(***************************************************************************)
C7_ErrorOnceAndLast ==
    \A s \in Streams :
        IF obs[s].fail = "no"
        THEN ErrorCalls(obs[s].calls) = {}
        ELSE /\ ErrorCalls(obs[s].calls) = {Len(obs[s].calls)}
             /\ Returned(s)

\* a read failed after chunks that made hook calls
C7_Witness ==
    \E s \in Streams :
        /\ obs[s].fail = "read"
        /\ Len(obs[s].calls) >= 2
        /\ obs[s].calls[1].hook = "onChunk"

(***************************************************************************)
(* C8.  A malformed frame ("data:" followed by text that is not JSON) is   *)
(* not fatal: the hook calls of a completed stream are those of the same   *)
(* response with its malformed frames removed, and none is onError.        *)
(***************************************************************************)
NotMalformed(d) == d.kind # "bad"

\* C8: the calls are those of the response without its malformed frames
C8_MalformedFrameSkipped ==
    \A s \in Streams :
        Completed(s) =>
            obs[s].calls = ReferenceCalls(SelectSeq(obs[s].plan, NotMalformed))

\* a malformed frame between a text frame and the end frame
C8_Witness ==
    \E s \in Streams :
        /\ Completed(s)
        /\ obs[s].plan = SandwichPlan
        /\ obs[s].calls = <<OnChunk(JStr(<<"a">>)), OnComplete>>

(***************************************************************************)
(* C9.  Routing of a complete frame: "data: " + JSON of type "text" makes  *)
(* one onChunk call with the frame's content, of type "end" one onComplete *)
(* call; a frame of another type, without a type, or that does not begin   *)
(* with "data:" makes no call.                                             *)
(***************************************************************************)
Routed(d) ==
    /\ d.term
    /\ d.kind \in {"text", "end", "ping", "notype", "nocontent", "comment"}
    /\ d.kind # "comment" => d.sp

ExpectedCall(d) ==
    CASE d.kind = "text"      -> <<OnChunk(JStr(d.c))>>
      [] d.kind = "nocontent" -> <<OnChunk(JUndefined)>>
      [] d.kind = "end"       -> <<OnComplete>>
      [] OTHER                -> <<>>

RECURSIVE ExpectedCalls(_)
ExpectedCalls(plan) ==
    IF plan = <<>> THEN <<>> ELSE ExpectedCall(Head(plan)) \o ExpectedCalls(Tail(plan))

\* C9: the calls of a completed stream are the expected calls of its frames
C9_FrameRouting ==
    \A s \in Streams :
        (Completed(s) /\ \A i \in 1..Len(obs[s].plan) : Routed(obs[s].plan[i]))
            => obs[s].calls = ExpectedCalls(obs[s].plan)

C9_Witness ==
    \E s \in Streams :
        /\ Completed(s)
        /\ Len(obs[s].plan) = 2
        /\ obs[s].plan[1].kind = "text" /\ obs[s].plan[1].sp
        /\ obs[s].plan[2].kind = "end" /\ obs[s].plan[2].term
        /\ obs[s].calls = <<OnChunk(JStr(obs[s].plan[1].c)), OnComplete>>

(***************************************************************************)
(* C10.  The space after "data:" is optional: a completed stream makes the *)
(* hook calls of the same response with a space after every "data:".       *)
(***************************************************************************)
WithSpace(plan) == [i \in 1..Len(plan) |-> [plan[i] EXCEPT !.sp = TRUE]]

\* C10: the calls are those of the response with a space after every "data:"
C10_SpaceAfterPrefixOptional ==
    \A s \in Streams :
        Completed(s) => obs[s].calls = ReferenceCalls(WithSpace(obs[s].plan))

(***************************************************************************)
(* C2.  A stream start, then only content deltas d1..dn whose joined text  *)
(* is not blank, then Completed: messages is the messages of the start     *)
(* plus one bot message with text d1+...+dn, and currentBotMessage is "".  *)
(***************************************************************************)
RECURSIVE Joined(_)
Joined(deltas) == IF deltas = <<>> THEN <<>> ELSE Head(deltas).v \o Joined(Tail(deltas))

AllStrings(deltas) == \A i \in 1..Len(deltas) : deltas[i].t = "string"

\* C2: start, deltas, Completed: one bot message with the joined text is appended
C2_DeltasThenCompleted ==
    (since.phase = "completed" /\ AllStrings(since.deltas) /\ trim(Joined(since.deltas)) # <<>>)
        => /\ chat.messages = Append(since.base, BotMessage(Joined(since.deltas)))
           /\ chat.currentBotMessage = <<>>

\* "He", "llo", Completed: one bot message "Hello"
C2_Witness ==
    /\ since.phase = "completed"
    /\ since.deltas = <<JStr(<<"H", "e">>), JStr(<<"l", "l", "o">>)>>
    /\ chat.messages = Append(since.base, BotMessage(<<"H", "e", "l", "l", "o">>))
    /\ chat.currentBotMessage = <<>>

(***************************************************************************)
(* C3.  A stream start, no content delta, then Completed: messages is      *)
(* unchanged and loading is false.                                         *)
(***************************************************************************)
C3_CompletedWithNothing ==
    (since.phase = "completed" /\ since.deltas = <<>>)
        => chat.messages = since.base /\ chat.loading = FALSE

C3_Witness ==
    /\ since.phase = "completed" /\ since.deltas = <<>>
    /\ prev.loading = TRUE /\ prev.currentBotMessage = <<>>
    /\ chat.loading = FALSE

(***************************************************************************)
(* C4.  Every finalizeBotMessage leaves currentBotMessage "" whatever it   *)
(* held before, and appends a message only if the trimmed accumulator was  *)
(* not empty.  (The code resets the accumulator only when it appends.)     *)
(***************************************************************************)
C4_CompletedResetsAccumulator ==
    lastAct.type = "chat/finalizeBotMessage" =>
        /\ chat.currentBotMessage = <<>>
        /\ IF trim(prev.currentBotMessage) # <<>>
           THEN chat.messages = Append(prev.messages, BotMessage(prev.currentBotMessage))
           ELSE chat.messages = prev.messages

(***************************************************************************)
(* C11.  clearMessages, in any state it is dispatched in, leaves messages  *)
(* empty, currentBotMessage "", error null, and sessionId as it was.       *)
(***************************************************************************)
C11_ClearMessages ==
    lastAct.type = "chat/clearMessages" =>
        /\ chat.messages = <<>>
        /\ chat.currentBotMessage = <<>>
        /\ chat.error = JNull
        /\ chat.sessionId = prev.sessionId

\* cleared with a transcript, an accumulator, an error and a session before
C11_Witness ==
    /\ lastAct.type = "chat/clearMessages"
    /\ prev.messages # <<>> /\ prev.currentBotMessage # <<>>
    /\ prev.error # JNull /\ prev.sessionId # <<>>
    /\ chat.messages = <<>> /\ chat.currentBotMessage = <<>>
    /\ chat.error = JNull /\ chat.sessionId = prev.sessionId

(***************************************************************************)
(* C12.  Text left in the buffer when the reader reports done is dropped:  *)
(* the hook calls of a completed stream are those of the response without  *)
(* its unterminated last frame, and the text of that frame is still in the *)
(* buffer.                                                                 *)
(***************************************************************************)
Terminated(d) == d.term

Unterminated(plan) == plan # <<>> /\ ~plan[Len(plan)].term

\* C12: the unterminated last frame of a completed stream makes no call
C12_TrailingTextDropped ==
    \A s \in Streams :
        (Completed(s) /\ Unterminated(obs[s].plan)) =>
            /\ obs[s].calls = ReferenceCalls(SelectSeq(obs[s].plan, Terminated))
            /\ streams[s].buffer = FrameText(obs[s].plan[Len(obs[s].plan)])
            /\ streams[s].todo = <<>>

\* a text frame, then a well-formed end frame without its terminator: one onChunk
C12_Witness ==
    \E s \in Streams :
        /\ Completed(s)
        /\ Len(obs[s].plan) = 2
        /\ obs[s].plan[1] = Frame("text", TRUE, <<"a">>)
        /\ obs[s].plan[2] = [Frame("end", TRUE, <<>>) EXCEPT !.term = FALSE]
        /\ streams[s].buffer = DataSpace \o PayloadText(Frame("end", TRUE, <<>>))
        /\ obs[s].calls = <<OnChunk(JStr(<<"a">>))>>

(***************************************************************************)
(* C13.  chatStream.pending, in any state it is dispatched in, sets        *)
(* loading, empties currentBotMessage, sets error to null, and leaves      *)
(* messages, sessionId and chatHistory as they were.                       *)
(***************************************************************************)
C13_StreamStart ==
    lastAct.type = "chat/chatStream/pending" =>
        /\ chat.loading = TRUE
        /\ chat.currentBotMessage = <<>>
        /\ chat.error = JNull
        /\ chat.messages = prev.messages
        /\ chat.sessionId = prev.sessionId
        /\ chat.chatHistory = prev.chatHistory

\* a start that found the accumulator and the error of an earlier stream
C13_Witness ==
    /\ lastAct.type = "chat/chatStream/pending"
    /\ prev.currentBotMessage # <<>> /\ prev.error # JNull /\ prev.loading = FALSE
    /\ chat.currentBotMessage = <<>> /\ chat.error = JNull /\ chat.loading = TRUE

(***************************************************************************)
(* C14.  After setError and after chatStream.rejected, loading is false    *)
(* and error is the message supplied when one is supplied, the default     *)
(* reason otherwise; it is never null, undefined or "".                    *)
(***************************************************************************)
ErroredActions == {"chat/setError", "chat/chatStream/rejected"}

OnlyStream(s) == \A r \in Streams \ {s} : thunk[r] = "idle"

\* stream s has started and has neither completed nor failed nor been rejected
Streaming(s) ==
    /\ thunk[s] \in {"pending", "fulfilled"}
    /\ \A i \in 1..Len(obs[s].calls) : obs[s].calls[i].hook = "onChunk"

KeepLoading ==
    {"chat/appendBotMessage", "chat/setMessages", "chat/addMessage", "chat/setSession",
     "chat/clearMessages"}

\* C15: loading is true while the only stream is streaming
C15_LoadingWhileStreaming ==
    /\ \A s \in Streams : (OnlyStream(s) /\ Streaming(s)) => chat.loading = TRUE
    /\ lastAct.type \in KeepLoading => chat.loading = prev.loading

\* the transcript is cleared after the first delta of the stream: still loading
C15_Witness ==
    /\ OnlyStream(1) /\ Streaming(1)
    /\ streams[1].pc = "read"
    /\ obs[1].calls = <<OnChunk(JStr(<<"a">>))>>
    /\ lastAct.type = "chat/clearMessages"
    /\ prev.loading = TRUE /\ chat.loading = TRUE

(***************************************************************************)
(* C16.  Once chatStreamApi has returned (the reader reported done, or the *)
(* transport failed), loading eventually becomes false.  (The code sets    *)
(* loading to false on an "end" frame or an error only: a body that ends   *)
(* without an "end" frame leaves it true.)                                 *)
(***************************************************************************)
C16_StreamLeavesStreaming ==
    (\E s \in Streams : Returned(s)) ~> (chat.loading = FALSE)

(***************************************************************************)
(* C17.  chatHistory.pending/fulfilled/rejected change nothing but the     *)
(* chatHistory sub-state, and no other action changes chatHistory.         *)
(***************************************************************************)
HistoryActions ==
    {"chat/chatHistory/pending", "chat/chatHistory/fulfilled", "chat/chatHistory/rejected"}

\* C17: history actions change chatHistory only, the others leave it alone
C17_HistoryIndependent ==
    IF lastAct.type \in HistoryActions
    THEN [chat EXCEPT !.chatHistory = prev.chatHistory] = prev
    ELSE chat.chatHistory = prev.chatHistory

\* a history load is fulfilled while a stream is loading with text accumulated
C17_Witness ==
    /\ lastAct.type = "chat/chatHistory/fulfilled"
    /\ prev.loading = TRUE /\ prev.currentBotMessage # <<>>
    /\ prev.chatHistory.loading = TRUE
    /\ chat.chatHistory.loading = FALSE /\ chat.chatHistory.chats # <<>>
    /\ chat.loading = TRUE /\ chat.currentBotMessage = prev.currentBotMessage

(***************************************************************************)
(* C18.  At most one stream is active: currentBotMessage and every bot     *)
(* message hold deltas of one stream only, and a chatStream.pending never  *)
(* erases text accumulated by a stream that is still in flight.  (The      *)
(* code starts a stream whatever the state of the others.)                 *)
(***************************************************************************)
IsChunk(call) == call.hook = "onChunk"

\* the text of the deltas stream s has delivered so far
DeltaText(s) ==
    LET c == SelectSeq(obs[s].calls, IsChunk)
    IN  Joined([i \in 1..Len(c) |-> c[i].arg])

PartOf(text, whole) ==
    \E i \in 1..(Len(whole) + 1), j \in 0..Len(whole) : SubSeq(whole, i, j) = text

InFlight(s) == streams[s].pc \in {"fetch", "read"}

\* C18: no text of two streams is mixed, no start erases text of a stream in flight
C18_OneStreamAtATime ==
    /\ \E s \in Streams : PartOf(chat.currentBotMessage, DeltaText(s))
    /\ \A i \in 1..Len(chat.messages) :
          \E s \in Streams : PartOf(chat.messages[i].llm_response, DeltaText(s))
    /\ (lastAct.type = "chat/chatStream/pending" /\ prev.currentBotMessage # <<>>)
          => ~ \E s \in Streams : InFlight(s) /\ obs[s].calls # <<>>

(***************************************************************************)
(* C19.  Run to completion: the frame loop visits the parts a chunk        *)
(* completed in their order, and no read is issued before it has visited   *)
(* them all; so the onChunk and onComplete calls of a stream are, in       *)
(* order, those of the frames on the wire.                                 *)
(***************************************************************************)
NotOnError(call) == call.hook # "onError"

IsPrefix(a, b) == Len(a) <= Len(b) /\ SubSeq(b, 1, Len(a)) = a

\* C19: the calls made are those of the parts visited, in wire order
C19_RunToCompletion ==
    \A s \in Streams :
        LET frames  == obs[s].frames
            visited == Len(frames) - Len(streams[s].todo)
            calls   == SelectSeq(obs[s].calls, NotOnError)
        IN  /\ streams[s].todo = SubSeq(frames, visited + 1, Len(frames))
            /\ calls = CallsOfParts(SubSeq(frames, 1, visited))
            /\ IsPrefix(calls, ReferenceCalls(obs[s].plan))

\* one chunk completed two frames; both calls were made, in order, before the done
C19_Witness ==
    \E s \in Streams :
        /\ Completed(s)
        /\ obs[s].cuts = {}
        /\ Len(obs[s].frames) = 2
        /\ obs[s].calls = <<OnChunk(JStr(<<"a">>)), OnComplete>>
        /\ obs[s].calls = ReferenceCalls(obs[s].plan)

(***************************************************************************)
(* C20.  Once a stream has started, currentBotMessage is the contents, in  *)
(* arrival order, of the deltas applied since the last chatStream.pending, *)
(* clearMessages, or finalizeBotMessage that appended a message.           *)
(***************************************************************************)
C20_AccumulatorIsDeltas ==
    (\E s \in Streams : thunk[s] # "idle") => chat.currentBotMessage = Joined(applied)

\* the transcript was cleared after "He"; then "llo" arrived
C20_Witness ==
    /\ thunk[1] = "pending"
    /\ obs[1].calls = <<OnChunk(JStr(<<"H", "e">>)), OnChunk(JStr(<<"l", "l", "o">>))>>
    /\ applied = <<JStr(<<"l", "l", "o">>)>>
    /\ chat.currentBotMessage = <<"l", "l", "o">>

(***************************************************************************)
(* C21.  The transcript is never reordered or altered: every action but    *)
(* setMessages and clearMessages leaves the messages before it as a prefix *)
(* of the messages after it; addMessage and a finalizeBotMessage with a    *)
(* non-blank accumulator add exactly one element at the end, every other   *)
(* action leaves messages equal.                                           *)
(***************************************************************************)
Replacing == {"chat/setMessages", "chat/clearMessages"}

\* C21: messages grows at its end only, by one element
C21_TranscriptPrefix ==
    lastAct.type \notin Replacing =>
        /\ IsPrefix(prev.messages, chat.messages)
        /\ IF lastAct.type = "chat/addMessage"
           THEN chat.messages = Append(prev.messages, lastAct.payload)
           ELSE IF lastAct.type = "chat/finalizeBotMessage"
                   /\ trim(prev.currentBotMessage) # <<>>
           THEN chat.messages = Append(prev.messages, BotMessage(prev.currentBotMessage))
           ELSE chat.messages = prev.messages

\* a bot message is appended after a greeting and a user message
C21_Witness ==
    /\ lastAct.type = "chat/finalizeBotMessage"
    /\ prev.messages = <<Greeting, UserMessage>>
    /\ chat.messages = <<Greeting, UserMessage, BotMessage(<<"H", "e", "l", "l", "o">>)>>

(***************************************************************************)
(* C22.  setMessages replaces messages by its payload, addMessage appends  *)
(* its payload, setSession assigns sessionId, each changing nothing else;  *)
(* no other action changes sessionId; error is left as it was by           *)
(* setMessages, addMessage, setSession, appendBotMessage,                  *)
(* finalizeBotMessage and the history actions, and becomes null only by    *)
(* chatStream.pending or clearMessages.                                    *)
(***************************************************************************)
KeepError ==
    {"chat/setMessages", "chat/addMessage", "chat/setSession", "chat/appendBotMessage",
     "chat/finalizeBotMessage"} \cup HistoryActions

\* C22: the frame conditions of setMessages, addMessage, setSession; the life of error
C22_NonStreamFrames ==
    /\ lastAct.type = "chat/setMessages" => chat = [prev EXCEPT !.messages = lastAct.payload]
    /\ lastAct.type = "chat/addMessage"
          => chat = [prev EXCEPT !.messages = Append(@, lastAct.payload)]
    /\ lastAct.type = "chat/setSession" => chat = [prev EXCEPT !.sessionId = lastAct.payload]
    /\ lastAct.type # "chat/setSession" => chat.sessionId = prev.sessionId
    /\ lastAct.type \in KeepError => chat.error = prev.error
    /\ (prev.error # JNull /\ chat.error = JNull)
          => lastAct.type \in {"chat/chatStream/pending", "chat/clearMessages"}

\* the session is set while an error, a transcript and an accumulator are present
C22_Witness ==
    /\ lastAct.type = "chat/setSession"
    /\ prev.sessionId = <<>> /\ chat.sessionId # <<>>
    /\ prev.error # JNull /\ chat.error = prev.error
    /\ prev.messages # <<>> /\ prev.currentBotMessage # <<>>

(***************************************************************************)
(* C23.  After any chunks, none included: buffer holds no terminator, and  *)
(* the parts handed to the frame loop, each followed by the terminator,    *)
(* then buffer, are the decoded text of the chunks received; with no chunk *)
(* received there is no part and buffer is empty.                          *)
(***************************************************************************)
RECURSIVE WithTerminators(_)
WithTerminators(parts) ==
    IF parts = <<>> THEN <<>>
    ELSE Head(parts) \o Terminator \o WithTerminators(Tail(parts))

\* the bytes of the response the reader has delivered to stream s
Received(s) ==
    LET wire == Wire(obs[s].plan)
    IN  SubSeq(wire, 1, Len(wire) - Len(streams[s].rest))

\* C23: the parts and buffer are the decoded text received, buffer has no terminator
C23_FrameBuffer ==
    \A s \in Streams :
        /\ indexOf(streams[s].buffer, Terminator) = 0
        /\ WithTerminators(obs[s].frames) \o streams[s].buffer
              = decode(<<>>, Received(s)).out
        /\ Received(s) = <<>> => (obs[s].frames = <<>> /\ streams[s].buffer = <<>>)

\* one part handed over, text in buffer, and a byte kept by the decoder
C23_Witness ==
    \E s \in Streams :
        /\ streams[s].pc = "read"
        /\ Len(obs[s].frames) = 1
        /\ streams[s].buffer # <<>>
        /\ streams[s].held # <<>>
        /\ WithTerminators(obs[s].frames) \o streams[s].buffer
              = decode(<<>>, Received(s)).out

(***************************************************************************)
(* C24.  With one stream dispatched, currentBotMessage is "" in every      *)
(* state in which loading is false.  (The code leaves the accumulator as   *)
(* it is on setError and chatStream.rejected, and on a finalizeBotMessage  *)
(* that finds it blank.)                                                   *)
(***************************************************************************)
C24_AccumulatorEmptyWhenIdle ==
    (\A s \in Streams \ {1} : thunk[s] = "idle")
        => (chat.loading = FALSE => chat.currentBotMessage = <<>>)

(***************************************************************************)
(* C25.  In a session of one stream at a time, the text a stream had       *)
(* accumulated when it failed is discarded: setError appends nothing to    *)
(* messages, and in every state messages holds exactly the bot messages of *)
(* the completions of the streams, the text left at a failure in none.     *)
(***************************************************************************)
\* the bot messages of the completions among calls; acc is the text not yet completed
RECURSIVE Finalized(_, _)
Finalized(calls, acc) ==
    IF calls = <<>> THEN <<>>
    ELSE IF Head(calls).hook = "onChunk"
         THEN Finalized(Tail(calls), acc \o Head(calls).arg.v)
    ELSE IF Head(calls).hook = "onComplete"
         THEN (IF trim(acc) # <<>> THEN <<BotMessage(acc)>> ELSE <<>>)
              \o Finalized(Tail(calls), <<>>)
    ELSE Finalized(Tail(calls), acc)

RECURSIVE FinalizedUpTo(_)
FinalizedUpTo(s) ==
    IF s = 0 THEN <<>> ELSE FinalizedUpTo(s - 1) \o Finalized(obs[s].calls, <<>>)

\* C25: only completed text is in messages, and setError appends nothing
C25_PartialTextDiscarded ==
    /\ lastAct.type = "chat/setError" => chat.messages = prev.messages
    /\ chat.messages = FinalizedUpTo(MaxStreams)

\* "He" was accumulated when the first stream failed; the next stream completed "a"
C25_Witness ==
    /\ obs[1].calls = <<OnChunk(JStr(<<"H", "e">>)), OnError(NetworkError)>>
    /\ obs[2].calls = <<OnChunk(JStr(<<"a">>)), OnComplete>>
    /\ chat.messages = <<BotMessage(<<"a">>)>>

(***************************************************************************)
(* C26.  Completion is terminal: a stream calls onComplete at most once,   *)
(* and no call of the stream follows it.  (The frame loop and the read     *)
(* loop go on after an "end" frame.)                                       *)
(***************************************************************************)
C26_CompletionTerminal ==
    \A s \in Streams :
        \A i \in 1..Len(obs[s].calls) :
            obs[s].calls[i].hook = "onComplete" => i = Len(obs[s].calls)

(***************************************************************************)
(* C27.  A failure of the transport or of the validation is reported by    *)
(* onError only: setError is dispatched once for the stream, chatStreamApi *)
(* returns, the promise of the thunk is fulfilled, and chatStream.rejected *)
(* is not dispatched.                                                      *)
(***************************************************************************)
C27_OneErrorChannel ==
    /\ lastAct.type # "chat/chatStream/rejected"
    /\ \A s \in Streams :
          obs[s].fail # "no" =>
              /\ Cardinality(ErrorCalls(obs[s].calls)) = 1
              /\ Returned(s)
              /\ thunk[s] = IF streams[s].pc = "settled" THEN "fulfilled" ELSE "pending"

\* a read failed, setError was dispatched, and the thunk has settled as fulfilled
C27_Witness ==
    \E s \in Streams :
        /\ obs[s].fail = "read"
        /\ obs[s].calls[Len(obs[s].calls)] = OnError(NetworkError)
        /\ streams[s].pc = "settled" /\ thunk[s] = "fulfilled"
        /\ lastAct.type = "chat/chatStream/fulfilled"
        /\ chat.error = JStr(NetworkError) /\ chat.loading = FALSE

(***************************************************************************)
(* C28.  clearMessages while a stream is loading does not end the stream:  *)
(* loading stays true, the deltas that follow are appended to the emptied  *)
(* accumulator, and the finalizeBotMessage that follows appends one bot    *)
(* message made of exactly the deltas after the clear.                     *)
(***************************************************************************)
ClearedText == Joined(cleared.deltas)

\* C28 as stated: the Completed after the clear always appends a message
C28_CompletedAfterClearAppends ==
    cleared.phase = "completed" => chat.messages = Append(prev.messages, BotMessage(ClearedText))

\* C28, amended: the Completed after the clear appends the message of the deltas
\* after the clear when their text is not blank, and nothing otherwise
C28_ClearDuringStream ==
    /\ cleared.phase = "on" => (chat.loading = TRUE /\ chat.currentBotMessage = ClearedText)
    /\ cleared.phase = "completed" =>
          chat.messages = IF trim(ClearedText) # <<>>
                          THEN Append(prev.messages, BotMessage(ClearedText))
                          ELSE prev.messages

\* cleared after "He"; "llo" arrived; the Completed appended "llo" to the empty transcript
C28_Witness ==
    /\ cleared = [phase |-> "completed", deltas |-> <<JStr(<<"l", "l", "o">>)>>]
    /\ obs[1].calls = <<OnChunk(JStr(<<"H", "e">>)), OnChunk(JStr(<<"l", "l", "o">>)), OnComplete>>
    /\ chat.messages = <<BotMessage(<<"l", "l", "o">>)>>
    /\ prev.loading = TRUE

(***************************************************************************)
(* C29.  chatHistory.pending sets chatHistory.loading and empties its      *)
(* error; fulfilled stores the payload in chats and rejected the payload   *)
(* in error, both ending loading and changing nothing else; and            *)
(* chatHistory.loading is true whenever a request is in flight.  (The code *)
(* keeps one flag for all the requests.)                                   *)
(***************************************************************************)
C29_HistoryLoading ==
    /\ lastAct.type = "chat/chatHistory/pending"
          => chat.chatHistory = [prev.chatHistory EXCEPT !.loading = TRUE, !.error = JNull]
    /\ lastAct.type = "chat/chatHistory/fulfilled"
          => chat.chatHistory = [prev.chatHistory EXCEPT !.loading = FALSE,
                                                         !.chats = lastAct.payload]
    /\ lastAct.type = "chat/chatHistory/rejected"
          => chat.chatHistory = [prev.chatHistory EXCEPT !.loading = FALSE,
                                                         !.error = lastAct.payload]
    /\ history > 0 => chat.chatHistory.loading = TRUE

(***************************************************************************)
(* C30.  Only the string content of a "text" frame is appended to          *)
(* currentBotMessage: an appendBotMessage whose payload is no string, as   *)
(* for a frame {"type":"text"} without content, adds no character.  (The   *)
(* code appends the text "undefined".)                                     *)
(***************************************************************************)
C30_OnlyContentAccumulated ==
    lastAct.type = "chat/appendBotMessage" =>
        chat.currentBotMessage
            = prev.currentBotMessage
                \o (IF lastAct.payload.t = "string" THEN lastAct.payload.v ELSE <<>>)

====
